---- MODULE Spec2Model ----
(***************************************************************************)
(* GradHub: the relationship-integrity layer of the Flask application.     *)
(* The relational store is the state; every route handler is one action.   *)
(* Handlers whose check and write are separate statements at the storage   *)
(* boundary are also given as two steps (the *Conc specifications).        *)
(***************************************************************************)
EXTENDS Integers, FiniteSets, Sequences, Bags, TLC

(***************************************************************************)
(* Bounds of the model.                                                    *)
(***************************************************************************)
MaxTime == 3
MaxMsgs == 2
MaxVotes == 2
MaxReqs == 3
MaxRowId == 4
MaxPolls == 2
MaxComments == 3

(***************************************************************************)
(* Values.                                                                 *)
(***************************************************************************)
\* None / SQL NULL (a nullable column such as Poll.end_date, Vote.user_id).
NULL == -1
\* flask_login's AnonymousUserMixin: current_user of a request with no session.
Anonymous == 0
\* The registered users.  Every handler of the identity graph reads and writes
\* only the rows of one pair (current_user, user_id), and every handler of the
\* ledger only the rows of one user, so two users show every case of a handler.
Users == {1, 2}
Actors == Users \cup {Anonymous}

VARIABLES
    now,             \* datetime.utcnow(), in minutes
    tzOffset,        \* datetime.now() - datetime.utcnow() of the deployment
    isPrivate,       \* User.is_private, by user id
    follows,         \* table follows: rows <<follower_id, followed_id>>
    followRequests,  \* table follow_requests: rows <<requester_id, requested_id>>
    directMessages,  \* table direct_message: rows [id, sender_id, recipient_id]
    polls,           \* table poll: rows [id, user_id, created_at, end_date]
    pollOptions,     \* table poll_option: rows [id, poll_id, text]
    votes,           \* table vote: rows [id, user_id, option_id, timestamp]
    pollVotes,       \* table poll_vote: rows [id, user_id, poll_id, created_at]
    comments,        \* table comment: rows [id, author_id, poll_id, parent_id]
    communities,     \* table community: rows [id, university, program, created_by_id]
    communityMembers,  \* table community_members: rows [id, user_id, community_id]
    reqs,            \* requests in flight between their check and their write
    resp             \* the response of the last handler that ran

graphVars == <<isPrivate, follows, followRequests>>
pollVars == <<polls, pollOptions, votes, pollVotes>>
socialVars == <<comments, communities, communityMembers>>
vars == <<now, tzOffset, isPrivate, follows, followRequests, directMessages,
          polls, pollOptions, votes, pollVotes, comments, communities,
          communityMembers, reqs, resp>>

Response(op, actor, a, b, status, count) ==
    [op |-> op, actor |-> actor, a |-> a, b |-> b, status |-> status, count |-> count]

NoResponse == Response("none", Anonymous, NULL, NULL, "none", 0)

\* The requests in flight: a bag of [user, poll, existing], one copy for each
\* worker that is between the SELECT and the COMMIT of its handler.
NoReqs == EmptyBag

\* Mutant: the route without the decorator.
login_required_absent(actor) == TRUE

\* @login_required: flask_login rejects a request whose current_user is anonymous.
login_required(actor) == actor # Anonymous

\* The next value of an integer primary key.
RECURSIVE MaxId(_)
MaxId(rows) ==
    IF rows = {} THEN 0
    ELSE LET r == CHOOSE x \in rows : TRUE
             m == MaxId(rows \ {r})
         IN IF r.id > m THEN r.id ELSE m

NextId(rows) == MaxId(rows) + 1

(***************************************************************************)
(* IdentityGraph: models.py, class User.                                   *)
(***************************************************************************)
\* Mutant: the edge lookup that never finds the edge.
is_following_never(self, user) == FALSE

is_following(self, user) == <<self, user>> \in follows

\* Mutant: the pending check that never finds the request.
has_follow_request_pending_never(self, user) == FALSE

has_follow_request_pending(self, user) == <<self, user>> \in followRequests

can_dm(self, user) == is_following(self, user) /\ is_following(user, self)

\* User.follow: adds the edge and commits, unless the edge is there.
User_follow(self, user) ==
    IF ~is_following(self, user)
    THEN follows \cup {<<self, user>>}
    ELSE follows

\* User.unfollow: deletes the edge and commits, if the edge is there.
User_unfollow(self, user) ==
    IF <<self, user>> \in follows
    THEN follows \ {<<self, user>>}
    ELSE follows

\* User.send_follow_request: stages the request row unless one is pending.
send_follow_request(self, user) ==
    IF ~has_follow_request_pending(self, user)
    THEN followRequests \cup {<<self, user>>}
    ELSE followRequests

\* Mutant: the DELETE of the request survives the failed INSERT (no rollback).
accept_follow_request_partial(self, user) ==
    IF <<user, self>> \in followRequests
    THEN IF <<user, self>> \in follows
         THEN [raised |-> TRUE, follows |-> follows,
               followRequests |-> followRequests \ {<<user, self>>}]
         ELSE [raised |-> FALSE,
               follows |-> follows \cup {<<user, self>>},
               followRequests |-> followRequests \ {<<user, self>>}]
    ELSE [raised |-> FALSE, follows |-> follows, followRequests |-> followRequests]

\* Mutant: the edge is created and the request is left pending.
accept_follow_request_keeps_request(self, user) ==
    IF <<user, self>> \in followRequests
    THEN IF <<user, self>> \in follows
         THEN [raised |-> TRUE, follows |-> follows, followRequests |-> followRequests]
         ELSE [raised |-> FALSE,
               follows |-> follows \cup {<<user, self>>},
               followRequests |-> followRequests]
    ELSE [raised |-> FALSE, follows |-> follows, followRequests |-> followRequests]

\* User.accept_follow_request: INSERT follows(user, self), DELETE the request,
\* COMMIT.  follows has the primary key (follower_id, followed_id): the INSERT
\* of an edge that exists raises IntegrityError, the except branch rolls the
\* session back and re-raises.
accept_follow_request(self, user) ==
    IF <<user, self>> \in followRequests
    THEN IF <<user, self>> \in follows
         THEN [raised |-> TRUE, follows |-> follows, followRequests |-> followRequests]
         ELSE [raised |-> FALSE,
               follows |-> follows \cup {<<user, self>>},
               followRequests |-> followRequests \ {<<user, self>>}]
    ELSE [raised |-> FALSE, follows |-> follows, followRequests |-> followRequests]

\* Mutant: the request is left pending.
reject_follow_request_keeps_request(self, user) == followRequests

\* User.reject_follow_request: stages the DELETE of the request, if there is one.
reject_follow_request(self, user) ==
    IF <<user, self>> \in followRequests
    THEN followRequests \ {<<user, self>>}
    ELSE followRequests

(***************************************************************************)
(* IdentityGraph: the routes.                                              *)
(***************************************************************************)
GraphFrame == UNCHANGED <<now, tzOffset, directMessages, socialVars, pollVars, reqs>>

\* Mutant: going public also drops the requests pending on the account.
toggle_privacy_drops_requests(actor) ==
    /\ GraphFrame
    /\ IF ~login_required(actor)
       THEN /\ resp' = Response("toggle_privacy", actor, NULL, NULL, "unauthorized", 0)
            /\ UNCHANGED graphVars
       ELSE /\ isPrivate' = [isPrivate EXCEPT ![actor] = ~isPrivate[actor]]
            /\ followRequests' = {r \in followRequests : r[2] # actor}
            /\ resp' = Response("toggle_privacy", actor, NULL, NULL, "ok", 0)
            /\ UNCHANGED follows

toggle_privacy(actor) ==
    /\ GraphFrame
    /\ IF ~login_required(actor)
       THEN /\ resp' = Response("toggle_privacy", actor, NULL, NULL, "unauthorized", 0)
            /\ UNCHANGED graphVars
       ELSE /\ isPrivate' = [isPrivate EXCEPT ![actor] = ~isPrivate[actor]]
            /\ resp' = Response("toggle_privacy", actor, NULL, NULL, "ok", 0)
            /\ UNCHANGED <<follows, followRequests>>

\* Mutant: the route that follows at once whether the target is private or not.
follow_ignores_privacy(actor, user_id, is_json) ==
    /\ GraphFrame
    /\ UNCHANGED isPrivate
    /\ IF ~login_required(actor)
       THEN /\ resp' = Response("follow", actor, user_id, NULL, "unauthorized", 0)
            /\ UNCHANGED <<follows, followRequests>>
       ELSE IF ~is_json
       THEN /\ resp' = Response("follow", actor, user_id, NULL, "invalid_request", 0)
            /\ UNCHANGED <<follows, followRequests>>
       ELSE IF user_id = actor
       THEN /\ resp' = Response("follow", actor, user_id, NULL, "cannot_follow_yourself", 0)
            /\ UNCHANGED <<follows, followRequests>>
       ELSE IF ~is_following(actor, user_id)
            THEN /\ follows' = User_follow(actor, user_id)
                 /\ resp' = Response("follow", actor, user_id, NULL, "following", 0)
                 /\ UNCHANGED followRequests
            ELSE /\ resp' = Response("follow", actor, user_id, NULL, "already_following", 0)
                 /\ UNCHANGED <<follows, followRequests>>

\* Mutant: the route without the `user == current_user` test.
follow_without_self_check(actor, user_id, is_json) ==
    /\ GraphFrame
    /\ UNCHANGED isPrivate
    /\ IF ~login_required(actor)
       THEN /\ resp' = Response("follow", actor, user_id, NULL, "unauthorized", 0)
            /\ UNCHANGED <<follows, followRequests>>
       ELSE IF ~is_json
       THEN /\ resp' = Response("follow", actor, user_id, NULL, "invalid_request", 0)
            /\ UNCHANGED <<follows, followRequests>>
       ELSE IF isPrivate[user_id]
       THEN IF ~has_follow_request_pending(actor, user_id)
            THEN /\ followRequests' = send_follow_request(actor, user_id)
                 /\ resp' = Response("follow", actor, user_id, NULL, "request_sent", 0)
                 /\ UNCHANGED follows
            ELSE /\ resp' = Response("follow", actor, user_id, NULL, "request_already_sent", 0)
                 /\ UNCHANGED <<follows, followRequests>>
       ELSE IF ~is_following(actor, user_id)
            THEN /\ follows' = User_follow(actor, user_id)
                 /\ resp' = Response("follow", actor, user_id, NULL, "following", 0)
                 /\ UNCHANGED followRequests
            ELSE /\ resp' = Response("follow", actor, user_id, NULL, "already_following", 0)
                 /\ UNCHANGED <<follows, followRequests>>

follow(actor, user_id, is_json) ==
    /\ GraphFrame
    /\ UNCHANGED isPrivate
    /\ IF ~login_required(actor)
       THEN /\ resp' = Response("follow", actor, user_id, NULL, "unauthorized", 0)
            /\ UNCHANGED <<follows, followRequests>>
       ELSE IF ~is_json
       THEN /\ resp' = Response("follow", actor, user_id, NULL, "invalid_request", 0)
            /\ UNCHANGED <<follows, followRequests>>
       ELSE IF user_id = actor
       THEN /\ resp' = Response("follow", actor, user_id, NULL, "cannot_follow_yourself", 0)
            /\ UNCHANGED <<follows, followRequests>>
       ELSE IF isPrivate[user_id]
       THEN IF ~has_follow_request_pending(actor, user_id)
            THEN /\ followRequests' = send_follow_request(actor, user_id)
                 /\ resp' = Response("follow", actor, user_id, NULL, "request_sent", 0)
                 /\ UNCHANGED follows
            ELSE /\ resp' = Response("follow", actor, user_id, NULL, "request_already_sent", 0)
                 /\ UNCHANGED <<follows, followRequests>>
       ELSE IF ~is_following(actor, user_id)
            THEN /\ follows' = User_follow(actor, user_id)
                 /\ resp' = Response("follow", actor, user_id, NULL, "following", 0)
                 /\ UNCHANGED followRequests
            ELSE /\ resp' = Response("follow", actor, user_id, NULL, "already_following", 0)
                 /\ UNCHANGED <<follows, followRequests>>

unfollow(actor, user_id, is_json) ==
    /\ GraphFrame
    /\ UNCHANGED <<isPrivate, followRequests>>
    /\ IF ~login_required(actor)
       THEN /\ resp' = Response("unfollow", actor, user_id, NULL, "unauthorized", 0)
            /\ UNCHANGED follows
       ELSE IF ~is_json
       THEN /\ resp' = Response("unfollow", actor, user_id, NULL, "invalid_request", 0)
            /\ UNCHANGED follows
       ELSE IF user_id = actor
       THEN /\ resp' = Response("unfollow", actor, user_id, NULL, "cannot_unfollow_yourself", 0)
            /\ UNCHANGED follows
       ELSE /\ follows' = User_unfollow(actor, user_id)
            /\ resp' = Response("unfollow", actor, user_id, NULL, "unfollowed", 0)

accept_follow(actor, user_id, is_json) ==
    /\ GraphFrame
    /\ UNCHANGED isPrivate
    /\ IF ~login_required(actor)
       THEN /\ resp' = Response("accept_follow", actor, user_id, NULL, "unauthorized", 0)
            /\ UNCHANGED <<follows, followRequests>>
       ELSE IF ~is_json
       THEN /\ resp' = Response("accept_follow", actor, user_id, NULL, "invalid_request", 0)
            /\ UNCHANGED <<follows, followRequests>>
       ELSE IF <<user_id, actor>> \notin followRequests
       THEN /\ resp' = Response("accept_follow", actor, user_id, NULL, "not_found", 0)
            /\ UNCHANGED <<follows, followRequests>>
       ELSE LET r == accept_follow_request(actor, user_id)
            IN /\ follows' = r.follows
               /\ followRequests' = r.followRequests
               /\ resp' = Response("accept_follow", actor, user_id, NULL,
                                   IF r.raised THEN "failed" ELSE "accepted", 0)

reject_follow(actor, user_id, is_json) ==
    /\ GraphFrame
    /\ UNCHANGED <<isPrivate, follows>>
    /\ IF ~login_required(actor)
       THEN /\ resp' = Response("reject_follow", actor, user_id, NULL, "unauthorized", 0)
            /\ UNCHANGED followRequests
       ELSE IF ~is_json
       THEN /\ resp' = Response("reject_follow", actor, user_id, NULL, "invalid_request", 0)
            /\ UNCHANGED followRequests
       ELSE IF <<user_id, actor>> \notin followRequests
       THEN /\ resp' = Response("reject_follow", actor, user_id, NULL, "not_found", 0)
            /\ UNCHANGED followRequests
       ELSE /\ followRequests' = reject_follow_request(actor, user_id)
            /\ resp' = Response("reject_follow", actor, user_id, NULL, "rejected", 0)

(***************************************************************************)
(* The store a deployment starts from: the registered users (is_private    *)
(* defaults to True), no edges, no requests, no messages.                  *)
(***************************************************************************)
InitGraph ==
    /\ now = 0
    /\ tzOffset = 0
    /\ isPrivate = [u \in Users |-> TRUE]
    /\ follows = {}
    /\ followRequests = {}
    /\ directMessages = {}
    /\ comments = {}
    /\ communities = {}
    /\ communityMembers = {}
    /\ polls = {}
    /\ pollOptions = {}
    /\ votes = {}
    /\ pollVotes = {}
    /\ reqs = NoReqs
    /\ resp = NoResponse

NextGraph ==
    \/ \E actor \in Actors : toggle_privacy(actor)
    \/ \E actor \in Actors, user_id \in Users, is_json \in BOOLEAN : follow(actor, user_id, is_json)
    \/ \E actor \in Actors, user_id \in Users, is_json \in BOOLEAN : unfollow(actor, user_id, is_json)
    \/ \E actor \in Actors, user_id \in Users, is_json \in BOOLEAN : accept_follow(actor, user_id, is_json)
    \/ \E actor \in Actors, user_id \in Users, is_json \in BOOLEAN : reject_follow(actor, user_id, is_json)

SpecGraph == InitGraph /\ [][NextGraph]_vars

(***************************************************************************)
(* Direct messages: routes.py, chat.                                       *)
(***************************************************************************)
\* The gate chat applies before it shows or stores anything.
chat_allowed(actor, user_id) == is_following(actor, user_id)

chat(actor, user_id, method, content) ==
    /\ UNCHANGED <<now, tzOffset, graphVars, pollVars, socialVars, reqs>>
    /\ IF ~login_required(actor)
       THEN /\ resp' = Response("chat", actor, user_id, NULL, "unauthorized", 0)
            /\ UNCHANGED directMessages
       ELSE IF ~chat_allowed(actor, user_id)
       THEN /\ resp' = Response("chat", actor, user_id, NULL, "not_following", 0)
            /\ UNCHANGED directMessages
       ELSE IF method = "POST" /\ content
       THEN /\ Cardinality(directMessages) < MaxMsgs
            /\ directMessages' = directMessages \cup
                   {[id |-> NextId(directMessages), sender_id |-> actor, recipient_id |-> user_id]}
            /\ resp' = Response("chat", actor, user_id, NULL, "sent", 0)
       ELSE /\ resp' = Response("chat", actor, user_id, NULL, "shown", 0)
            /\ UNCHANGED directMessages

NextDM ==
    \/ NextGraph
    \/ \E actor \in Actors, user_id \in Users, method \in {"GET", "POST"}, content \in BOOLEAN :
           chat(actor, user_id, method, content)

SpecDM == InitGraph /\ [][NextDM]_vars

(***************************************************************************)
(* PollLifecycle and InteractionLedger: votes.                             *)
(***************************************************************************)
\* Query.get_or_404: whether the row is there, and the row.
Exists(rows, id) == \E r \in rows : r.id = id

Get(rows, id) == CHOOSE r \in rows : r.id = id

\* An id the table holds no row for, and the ids a request can name.
MissingId(rows) == MaxId(rows) + 1

IdInputs(rows) == {r.id : r \in rows} \cup {MissingId(rows)}

\* datetime.now(): the local clock of the deployment.
LocalNow == now + tzOffset

\* PollOption.poll, the backref of Poll.options.
OptionPoll(option_id) == Get(pollOptions, option_id).poll_id

\* routes.py vote: the poll looked at is the one the URL names.
vote_poll_ended(poll) == poll.end_date # NULL /\ poll.end_date < LocalNow

\* routes.py vote: the existing-vote query filters on the option of the URL.
vote_existing(actor, option_id) ==
    \E v \in votes : v.user_id = actor /\ v.option_id = option_id

VoteFrame ==
    UNCHANGED <<now, tzOffset, graphVars, directMessages, socialVars, polls, pollOptions, pollVotes, reqs>>

\* routes.py vote: GET /poll/<poll_id>/vote/<option_id>.
vote(actor, poll_id, option_id) ==
    /\ VoteFrame
    /\ IF ~login_required(actor)
       THEN /\ resp' = Response("vote", actor, poll_id, option_id, "unauthorized", 0)
            /\ UNCHANGED votes
       ELSE IF ~Exists(polls, poll_id) \/ ~Exists(pollOptions, option_id)
       THEN /\ resp' = Response("vote", actor, poll_id, option_id, "not_found", 0)
            /\ UNCHANGED votes
       ELSE IF vote_poll_ended(Get(polls, poll_id))
       THEN /\ resp' = Response("vote", actor, poll_id, option_id, "poll_ended", 0)
            /\ UNCHANGED votes
       ELSE IF vote_existing(actor, option_id)
       THEN /\ resp' = Response("vote", actor, poll_id, option_id, "already_voted", 0)
            /\ UNCHANGED votes
       ELSE /\ Cardinality(votes) < MaxVotes
            /\ votes' = votes \cup {[id |-> NextId(votes), user_id |-> actor,
                                     option_id |-> option_id, timestamp |-> now]}
            /\ resp' = Response("vote", actor, poll_id, option_id, "recorded", 0)

\* api.py vote_poll: POST /api/polls/<poll_id>/vote with {option_id}.  The
\* endpoint asks for no login and stores Vote(option_id=...), user_id NULL.
\* get_or_404 runs inside the try: its NotFound is caught and answered 500.
\* current_user is never read, so the response carries no actor.
vote_poll(poll_id, option_id) ==
    /\ VoteFrame
    /\ IF option_id = NULL
       THEN /\ resp' = Response("vote_poll", Anonymous, poll_id, option_id, "option_id_required", 0)
            /\ UNCHANGED votes
       ELSE IF ~Exists(pollOptions, option_id)
       THEN /\ resp' = Response("vote_poll", Anonymous, poll_id, option_id, "failed", 0)
            /\ UNCHANGED votes
       ELSE IF OptionPoll(option_id) # poll_id
       THEN /\ resp' = Response("vote_poll", Anonymous, poll_id, option_id, "invalid_option", 0)
            /\ UNCHANGED votes
       ELSE /\ Cardinality(votes) < MaxVotes
            /\ votes' = votes \cup {[id |-> NextId(votes), user_id |-> NULL,
                                     option_id |-> option_id, timestamp |-> now]}
            /\ resp' = Response("vote_poll", Anonymous, poll_id, option_id, "recorded", 0)

\* The clock advances between requests.
Tick ==
    /\ now < MaxTime
    /\ now' = now + 1
    /\ UNCHANGED <<tzOffset, graphVars, directMessages, socialVars, pollVars, reqs, resp>>

(***************************************************************************)
(* A store that holds polls with options.  Poll 1 ends at tick 2, poll 2   *)
(* has no end date (the web form leaves end_date optional).                *)
(***************************************************************************)
SeedPolls ==
    {[id |-> 1, user_id |-> 1, created_at |-> 0, end_date |-> 2],
     [id |-> 2, user_id |-> 2, created_at |-> 0, end_date |-> NULL]}

SeedOptions ==
    {[id |-> 1, poll_id |-> 1, text |-> "A"],
     [id |-> 2, poll_id |-> 1, text |-> "B"],
     [id |-> 3, poll_id |-> 2, text |-> "A"]}

TzOffsets == {-1, 0, 1}

InitVote ==
    /\ now = 0
    /\ tzOffset \in TzOffsets
    /\ isPrivate = [u \in Users |-> TRUE]
    /\ follows = {}
    /\ followRequests = {}
    /\ directMessages = {}
    /\ comments = {}
    /\ communities = {}
    /\ communityMembers = {}
    /\ polls = SeedPolls
    /\ pollOptions = SeedOptions
    /\ votes = {}
    /\ pollVotes = {}
    /\ reqs = NoReqs
    /\ resp = NoResponse

NextVote ==
    \/ \E actor \in Actors, poll_id \in IdInputs(polls), option_id \in IdInputs(pollOptions) :
           vote(actor, poll_id, option_id)
    \/ \E poll_id \in IdInputs(polls), option_id \in IdInputs(pollOptions) \cup {NULL} :
           vote_poll(poll_id, option_id)
    \/ Tick

SpecVote == InitVote /\ [][NextVote]_vars

(***************************************************************************)
(* PollLifecycle: upvotes (models.py PollVote, routes.py upvote_poll).     *)
(***************************************************************************)
\* Poll.upvote_count: self.upvotes.count().
upvote_count(rows, poll_id) == Cardinality({r \in rows : r.poll_id = poll_id})

\* Mutant: the table without its unique constraint.
PollVote_unique_absent(rows, user_id, poll_id) == TRUE

\* PollVote.__table_args__: UniqueConstraint('user_id', 'poll_id'), which the
\* store checks when the INSERT is flushed.
PollVote_unique(rows, user_id, poll_id) ==
    ~\E r \in rows : r.user_id = user_id /\ r.poll_id = poll_id

\* Poll.toggle_upvote, the model-level toggle: FALSE for an anonymous user,
\* else the staged table and 'removed' or 'added'.  No route calls it;
\* upvote_poll repeats its body and adds the commit and the count.
toggle_upvote(rows, user, poll_id) ==
    IF user = Anonymous
    THEN [pollVotes |-> rows, result |-> "False"]
    ELSE IF \E r \in rows : r.user_id = user /\ r.poll_id = poll_id
    THEN [pollVotes |-> rows \ {CHOOSE r \in rows : r.user_id = user /\ r.poll_id = poll_id},
          result |-> "removed"]
    ELSE [pollVotes |-> rows \cup {[id |-> NextId(rows), user_id |-> user, poll_id |-> poll_id,
                                    created_at |-> now]},
          result |-> "added"]

\* upvote_poll, the SELECT: PollVote.query.filter_by(user_id, poll_id).first(),
\* as the id of the row found, or NULL.
select_poll_vote(actor, poll_id) ==
    IF \E r \in pollVotes : r.user_id = actor /\ r.poll_id = poll_id
    THEN (CHOOSE r \in pollVotes : r.user_id = actor /\ r.poll_id = poll_id).id
    ELSE NULL

\* Mutant: the removal that deletes nothing.
upvote_write_keeps_row(actor, poll_id, existing) ==
    IF existing # NULL
    THEN [pollVotes |-> pollVotes, status |-> "removed"]
    ELSE IF ~PollVote_unique(pollVotes, actor, poll_id)
    THEN [pollVotes |-> pollVotes, status |-> "failed"]
    ELSE [pollVotes |-> pollVotes \cup
             {[id |-> NextId(pollVotes), user_id |-> actor, poll_id |-> poll_id,
               created_at |-> now]},
          status |-> "added"]

\* upvote_poll, the write: DELETE the row found and COMMIT, or INSERT a row and
\* COMMIT.  A DELETE that matches no row changes nothing; an INSERT the unique
\* constraint refuses raises IntegrityError, which the except branch rolls
\* back and answers 500.
upvote_write(actor, poll_id, existing) ==
    IF existing # NULL
    THEN [pollVotes |-> {r \in pollVotes : r.id # existing}, status |-> "removed"]
    ELSE IF ~PollVote_unique(pollVotes, actor, poll_id)
    THEN [pollVotes |-> pollVotes, status |-> "failed"]
    ELSE [pollVotes |-> pollVotes \cup
             {[id |-> NextId(pollVotes), user_id |-> actor, poll_id |-> poll_id,
               created_at |-> now]},
          status |-> "added"]

\* The count the response carries: poll.upvote_count after the commit.
upvote_response(actor, poll_id, w) ==
    Response("upvote_poll", actor, poll_id, NULL, w.status,
             IF w.status = "failed" THEN 0 ELSE upvote_count(w.pollVotes, poll_id))

UpvoteFrame ==
    UNCHANGED <<now, tzOffset, graphVars, directMessages, socialVars, polls, pollOptions, votes>>

\* routes.py upvote_poll, one request from start to end.  current_user.id of an
\* anonymous user raises AttributeError inside the try (answered 500).
upvote_poll(actor, poll_id) ==
    /\ UpvoteFrame
    /\ UNCHANGED reqs
    /\ IF ~login_required(actor)
       THEN /\ resp' = Response("upvote_poll", actor, poll_id, NULL, "unauthorized", 0)
            /\ UNCHANGED pollVotes
       ELSE IF ~Exists(polls, poll_id)
       THEN /\ resp' = Response("upvote_poll", actor, poll_id, NULL, "not_found", 0)
            /\ UNCHANGED pollVotes
       ELSE IF actor = Anonymous
       THEN /\ resp' = Response("upvote_poll", actor, poll_id, NULL, "failed", 0)
            /\ UNCHANGED pollVotes
       ELSE LET w == upvote_write(actor, poll_id, select_poll_vote(actor, poll_id))
            IN /\ MaxId(w.pollVotes) <= MaxRowId
               /\ pollVotes' = w.pollVotes
               /\ resp' = upvote_response(actor, poll_id, w)

\* The same handler as two steps of a worker: up to the SELECT ...
upvote_select(actor, poll_id) ==
    /\ UpvoteFrame
    /\ IF ~login_required(actor)
       THEN /\ resp' = Response("upvote_poll", actor, poll_id, NULL, "unauthorized", 0)
            /\ UNCHANGED <<pollVotes, reqs>>
       ELSE IF ~Exists(polls, poll_id)
       THEN /\ resp' = Response("upvote_poll", actor, poll_id, NULL, "not_found", 0)
            /\ UNCHANGED <<pollVotes, reqs>>
       ELSE IF actor = Anonymous
       THEN /\ resp' = Response("upvote_poll", actor, poll_id, NULL, "failed", 0)
            /\ UNCHANGED <<pollVotes, reqs>>
       ELSE /\ BagCardinality(reqs) < MaxReqs
            /\ reqs' = reqs (+) SetToBag({[user |-> actor, poll |-> poll_id,
                                           existing |-> select_poll_vote(actor, poll_id)]})
            /\ UNCHANGED <<pollVotes, resp>>

\* ... and from the SELECT's answer to the response.
upvote_commit(q) ==
    /\ UpvoteFrame
    /\ BagIn(q, reqs)
    /\ LET w == upvote_write(q.user, q.poll, q.existing)
       IN /\ MaxId(w.pollVotes) <= MaxRowId
          /\ pollVotes' = w.pollVotes
          /\ resp' = upvote_response(q.user, q.poll, w)
    /\ reqs' = reqs (-) SetToBag({q})

InitUpvote ==
    /\ now = 0
    /\ tzOffset = 0
    /\ isPrivate = [u \in Users |-> TRUE]
    /\ follows = {}
    /\ followRequests = {}
    /\ directMessages = {}
    /\ comments = {}
    /\ communities = {}
    /\ communityMembers = {}
    /\ polls = SeedPolls
    /\ pollOptions = SeedOptions
    /\ votes = {}
    /\ pollVotes = {}
    /\ reqs = NoReqs
    /\ resp = NoResponse

NextUpvote == \E actor \in Actors, poll_id \in IdInputs(polls) : upvote_poll(actor, poll_id)

SpecUpvote == InitUpvote /\ [][NextUpvote]_vars

\* The interleaved requests run on a store with one poll: the requests that
\* race are the ones on the same poll.
InitUpvoteConc ==
    /\ now = 0
    /\ tzOffset = 0
    /\ isPrivate = [u \in Users |-> TRUE]
    /\ follows = {}
    /\ followRequests = {}
    /\ directMessages = {}
    /\ comments = {}
    /\ communities = {}
    /\ communityMembers = {}
    /\ polls = {p \in SeedPolls : p.end_date = NULL}
    /\ pollOptions = {o \in SeedOptions : o.poll_id \in {p.id : p \in polls}}
    /\ votes = {}
    /\ pollVotes = {}
    /\ reqs = NoReqs
    /\ resp = NoResponse

NextUpvoteConc ==
    \/ \E actor \in Actors, poll_id \in IdInputs(polls) : upvote_select(actor, poll_id)
    \/ \E q \in BagToSet(reqs) : upvote_commit(q)

SpecUpvoteConc == InitUpvoteConc /\ [][NextUpvoteConc]_vars

(***************************************************************************)
(* InteractionLedger: routes.py vote as two steps of a worker.             *)
(***************************************************************************)
\* INSERT INTO vote: the table declares no unique constraint, so the database
\* refuses no row.
Vote_insert_raises(rows, user_id, option_id) == FALSE

\* vote, up to the answer of Vote.query.filter_by(user_id, option_id).first().
vote_select(actor, poll_id, option_id) ==
    /\ UNCHANGED <<now, tzOffset, graphVars, directMessages, socialVars, polls,
                   pollOptions, pollVotes>>
    /\ IF ~login_required(actor)
       THEN /\ resp' = Response("vote", actor, poll_id, option_id, "unauthorized", 0)
            /\ UNCHANGED <<votes, reqs>>
       ELSE IF ~Exists(polls, poll_id) \/ ~Exists(pollOptions, option_id)
       THEN /\ resp' = Response("vote", actor, poll_id, option_id, "not_found", 0)
            /\ UNCHANGED <<votes, reqs>>
       ELSE IF vote_poll_ended(Get(polls, poll_id))
       THEN /\ resp' = Response("vote", actor, poll_id, option_id, "poll_ended", 0)
            /\ UNCHANGED <<votes, reqs>>
       ELSE /\ BagCardinality(reqs) < MaxReqs
            /\ reqs' = reqs (+) SetToBag({[user |-> actor, poll |-> poll_id,
                                           option |-> option_id,
                                           existing |-> vote_existing(actor, option_id)]})
            /\ UNCHANGED <<votes, resp>>

\* vote, from that answer to the response: the flash "already voted", or the
\* INSERT and the COMMIT.
vote_commit(q) ==
    /\ UNCHANGED <<now, tzOffset, graphVars, directMessages, socialVars, polls,
                   pollOptions, pollVotes>>
    /\ BagIn(q, reqs)
    /\ reqs' = reqs (-) SetToBag({q})
    /\ IF q.existing
       THEN /\ resp' = Response("vote", q.user, q.poll, q.option, "already_voted", 0)
            /\ UNCHANGED votes
       ELSE IF Vote_insert_raises(votes, q.user, q.option)
       THEN /\ resp' = Response("vote", q.user, q.poll, q.option, "failed", 0)
            /\ UNCHANGED votes
       ELSE /\ Cardinality(votes) < MaxVotes
            /\ votes' = votes \cup {[id |-> NextId(votes), user_id |-> q.user,
                                     option_id |-> q.option, timestamp |-> now]}
            /\ resp' = Response("vote", q.user, q.poll, q.option, "recorded", 0)

NextVoteConc ==
    \/ \E actor \in Actors, poll_id \in IdInputs(polls), option_id \in IdInputs(pollOptions) :
           vote_select(actor, poll_id, option_id)
    \/ \E q \in BagToSet(reqs) : vote_commit(q)

SpecVoteConc == InitUpvoteConc /\ [][NextVoteConc]_vars

(***************************************************************************)
(* PollLifecycle: the listings (routes.py index, archived_polls).          *)
(***************************************************************************)
\* timedelta(days=7), in minutes.
SevenDays == 10080

\* The ids of a listing, whatever their order.
Listed(listing) == {listing[i] : i \in DOMAIN listing}

\* The results a query may give for `ORDER BY key DESC` over rows: every
\* arrangement of the ids of the rows in which no row comes before one of a
\* greater key.  Rows of equal key come in either order.  key maps each row
\* to the value it is ordered by.
OrderByDesc(rows, key) ==
    {listing \in [1..Cardinality(rows) -> {r.id : r \in rows}] :
        /\ \A i, j \in DOMAIN listing : i # j => listing[i] # listing[j]
        /\ \A i, j \in DOMAIN listing :
               i < j => key[Get(rows, listing[i])] >= key[Get(rows, listing[j])]}

\* Mutant: the filter of index with >= in place of >.
base_query_inclusive == {p \in polls : p.end_date = NULL \/ p.end_date >= now}

\* index, base_query: Poll.end_date IS NULL OR Poll.end_date > now.
base_query == {p \in polls : p.end_date = NULL \/ p.end_date > now}

\* index, sort = top: the inner JOIN keeps the polls that have a poll_vote
\* row, GROUP BY poll.id, ORDER BY count(poll_vote.id) DESC.
top_query ==
    LET joined == {p \in base_query : \E r \in pollVotes : r.poll_id = p.id}
        count == [p \in joined |-> Cardinality({r \in pollVotes : r.poll_id = p.id})]
    IN OrderByDesc(joined, count)

\* index, sort = trending: as top, over the poll_vote rows of the last week.
trending_query ==
    LET week_ago == now - SevenDays
        recent == {r \in pollVotes : r.created_at > week_ago}
        joined == {p \in base_query : \E r \in recent : r.poll_id = p.id}
        count == [p \in joined |-> Cardinality({r \in recent : r.poll_id = p.id})]
    IN OrderByDesc(joined, count)

\* index, any other sort: ORDER BY Poll.created_at DESC.
new_query ==
    LET created_at == [p \in base_query |-> p.created_at]
    IN OrderByDesc(base_query, created_at)

index_query(sort) ==
    IF sort = "top" THEN top_query
    ELSE IF sort = "trending" THEN trending_query
    ELSE new_query

\* archived_polls: Poll.end_date <= now (never true of a NULL end_date),
\* ORDER BY Poll.created_at DESC.
archived_query ==
    LET archived == {p \in polls : p.end_date # NULL /\ p.end_date <= now}
        created_at == [p \in archived |-> p.created_at]
    IN OrderByDesc(archived, created_at)

ListFrame ==
    UNCHANGED <<now, tzOffset, graphVars, directMessages, pollVars, socialVars, reqs>>

\* routes.py index: GET /?sort=...  The response carries the listing (a page
\* holds 10 polls, more than the store of the model) and the clock reading.
index(sort) ==
    /\ ListFrame
    /\ \E listing \in index_query(sort) :
           resp' = Response("index", Anonymous, listing, sort, "ok", now)

\* routes.py archived_polls: GET /archived.
archived_polls ==
    /\ ListFrame
    /\ \E listing \in archived_query :
           resp' = Response("archived_polls", Anonymous, listing, NULL, "ok", now)

Sorts == {"new", "top", "trending"}

\* The seeded store, looked at from any minute of the clock: before, at and
\* after the end of poll 1.
InitList ==
    /\ now \in 0..MaxTime
    /\ tzOffset = 0
    /\ isPrivate = [u \in Users |-> TRUE]
    /\ follows = {}
    /\ followRequests = {}
    /\ directMessages = {}
    /\ comments = {}
    /\ communities = {}
    /\ communityMembers = {}
    /\ polls = SeedPolls
    /\ pollOptions = SeedOptions
    /\ votes = {}
    /\ pollVotes = {}
    /\ reqs = NoReqs
    /\ resp = NoResponse

NextList ==
    \/ \E sort \in Sorts : index(sort)
    \/ archived_polls
    \/ \E actor \in Users, poll_id \in {p.id : p \in polls} : upvote_poll(actor, poll_id)

SpecList == InitList /\ [][NextList]_vars

(***************************************************************************)
(* PollLifecycle: creation (routes.py create_poll, api.py create_poll).    *)
(***************************************************************************)
\* timedelta(minutes=5), timedelta(days=3), timedelta(days=10), in minutes.
FiveMinutes == 5
ThreeDays == 4320
TenDays == 14400

\* Poll.DEFAULT_OPTION, the text of the viewing-only option.
DEFAULT_OPTION == "Just viewing results"

\* The attributes of class Poll: its columns and its relationships.  The
\* constructor db.Model gives a class takes a keyword only if the class has an
\* attribute of that name, and raises TypeError otherwise.
PollAttributes ==
    {"id", "title", "description", "created_at", "end_date", "poll_type",
     "user_id", "upvotes", "options", "comments"}

\* The keywords of the two calls Poll(...).
WebPollKwargs == {"title", "description", "poll_type", "end_date", "user_id"}
ApiPollKwargs == {"title", "description", "poll_type", "user_id", "course", "end_date"}

Poll_init_raises(kwargs) == ~(kwargs \subseteq PollAttributes)

\* INSERT INTO poll: user_id is declared nullable=False.
Poll_insert_raises(user_id) == user_id = NULL

\* PollForm.validate_end_date: a date before datetime.now() is refused; no
\* date at all passes (the field is Optional).
validate_end_date(end_date) == ~(end_date # NULL /\ end_date < LocalNow)

\* form.validate_on_submit(): the field validators, then validate_end_date.
validate_on_submit(form) == form.fields_valid /\ validate_end_date(form.end_date)

PollFrame ==
    UNCHANGED <<now, tzOffset, graphVars, directMessages, socialVars, votes, pollVotes, reqs>>

\* routes.py create_poll: POST /create_poll.  The row takes end_date from the
\* form as it is, created_at from the column default at the INSERT, and no
\* poll_option row is written.
create_poll(actor, form) ==
    /\ Cardinality(polls) < MaxPolls
    /\ PollFrame
    /\ UNCHANGED pollOptions
    /\ IF ~login_required(actor)
       THEN /\ resp' = Response("create_poll", actor, form.end_date, now, "unauthorized", 0)
            /\ UNCHANGED polls
       ELSE IF ~validate_on_submit(form)
       THEN /\ resp' = Response("create_poll", actor, form.end_date, now, "form_invalid", 0)
            /\ UNCHANGED polls
       ELSE LET id == NextId(polls)
            IN /\ polls' = polls \cup {[id |-> id, user_id |-> actor,
                                        created_at |-> now, end_date |-> form.end_date]}
               /\ resp' = Response("create_poll", actor, form.end_date, now, "created", id)

\* The rows of one committed api.py create_poll: the caller's options in the
\* order of the list, then the viewing-only option.
api_option_rows(poll_id, options) ==
    LET first == NextId(pollOptions)
    IN {[id |-> first + i - 1, poll_id |-> poll_id, text |-> options[i]] :
            i \in 1..Len(options)}
       \cup {[id |-> first + Len(options), poll_id |-> poll_id, text |-> DEFAULT_OPTION]}

\* The outcome of api.py create_poll on the JSON body `data`, statement by
\* statement: the status of the response and the end_date of the row.  The
\* clock is read once (line 58); min_end, max_end and default_end are offsets
\* of that reading.  A date with a UTC offset ("...Z") parses to an aware
\* datetime, whose comparison with the naive min_end raises TypeError, which
\* the inner `except ValueError` does not catch.
api_create_poll_outcome(actor, data) ==
    LET default_end == now + ThreeDays
        max_end == now + TenDays
        min_end == now + FiveMinutes
        requested_end == data.end_date.value
        end_date == IF data.end_date.fmt = "absent" THEN default_end ELSE requested_end
        user_id == IF actor # Anonymous THEN actor ELSE NULL
        status ==
            IF ~data.has_title_and_type THEN "title_and_type_required"
            ELSE IF data.end_date.fmt = "invalid" THEN "invalid_end_date_format"
            ELSE IF data.end_date.fmt = "iso_tz" THEN "failed"
            ELSE IF data.end_date.fmt = "iso" /\ requested_end <= min_end THEN "end_date_too_soon"
            ELSE IF data.end_date.fmt = "iso" /\ requested_end > max_end THEN "end_date_too_far"
            ELSE IF Poll_init_raises(ApiPollKwargs) THEN "failed"
            ELSE IF Poll_insert_raises(user_id) THEN "failed"
            ELSE IF Len(data.options) < 2 THEN "two_options_required"
            ELSE IF data.poll_type = "university" /\ ~data.has_course THEN "course_required"
            ELSE IF data.poll_type = "university" /\ \E i \in 1..Len(data.options) : data.options[i] = ""
                 THEN "university_name_required"
            ELSE "created"
    IN [status |-> status, user_id |-> user_id, end_date |-> end_date]

\* api.py create_poll: POST /api/polls.  Only the branch that reaches
\* db.session.commit() writes; the 400 answers after the flush return with the
\* poll staged and not committed, and the session is discarded with the
\* request; the except branch rolls back.
api_create_poll(actor, data) ==
    /\ Cardinality(polls) < MaxPolls
    /\ PollFrame
    /\ LET r == api_create_poll_outcome(actor, data)
           id == NextId(polls)
       IN IF r.status = "created"
          THEN /\ polls' = polls \cup {[id |-> id, user_id |-> r.user_id,
                                        created_at |-> now, end_date |-> r.end_date]}
               /\ pollOptions' = pollOptions \cup api_option_rows(id, data.options)
               /\ resp' = Response("api_create_poll", actor, data.end_date.value, now, "created", id)
          ELSE /\ resp' = Response("api_create_poll", actor, data.end_date.value, now, r.status, 0)
               /\ UNCHANGED <<polls, pollOptions>>

\* The end dates a caller sends, around the limits of the API.
EndOffsets == {FiveMinutes - 1, FiveMinutes, FiveMinutes + 1, TenDays, TenDays + 1}

ApiEndDates ==
    {[fmt |-> "absent", value |-> NULL],
     [fmt |-> "invalid", value |-> NULL],
     [fmt |-> "iso_tz", value |-> now + ThreeDays]}
    \cup {[fmt |-> "iso", value |-> now + d] : d \in EndOffsets}

ApiOptions == {<<"A">>, <<"A", "B">>, <<"A", "">>}

\* The bodies a caller posts: a well-formed general poll with each of the end
\* dates, and every combination of the other fields with no end date.
ApiData ==
    [has_title_and_type : {TRUE}, poll_type : {"general"},
     end_date : ApiEndDates, options : {<<"A", "B">>}, has_course : {FALSE}]
    \cup
    [has_title_and_type : BOOLEAN, poll_type : {"general", "university"},
     end_date : {[fmt |-> "absent", value |-> NULL]},
     options : ApiOptions, has_course : BOOLEAN]

\* What the web form posts: an end date in the past, none, or one of the dates
\* above.
WebForms ==
    [fields_valid : BOOLEAN,
     end_date : {NULL, LocalNow - 1, now + FiveMinutes - 1, now + ThreeDays, now + TenDays + 1}]

InitPoll ==
    /\ now = 0
    /\ tzOffset \in TzOffsets
    /\ isPrivate = [u \in Users |-> TRUE]
    /\ follows = {}
    /\ followRequests = {}
    /\ directMessages = {}
    /\ comments = {}
    /\ communities = {}
    /\ communityMembers = {}
    /\ polls = {}
    /\ pollOptions = {}
    /\ votes = {}
    /\ pollVotes = {}
    /\ reqs = NoReqs
    /\ resp = NoResponse

NextPoll ==
    \/ \E actor \in Actors, form \in WebForms : create_poll(actor, form)
    \/ \E actor \in Actors, data \in ApiData : api_create_poll(actor, data)
    \/ Tick

SpecPoll == InitPoll /\ [][NextPoll]_vars

(***************************************************************************)
(* InteractionLedger: comments (models.py Comment, routes.py add_comment,  *)
(* add_reply, delete_comment).                                             *)
(***************************************************************************)
\* Comment.replies of the comment with this id.
replies(rows, id) == {r \in rows : r.parent_id = id}

\* The rows db.session.delete(comment) deletes: the comment and, by
\* cascade='all, delete-orphan' on Comment.replies, the replies of every row it
\* deletes.
RECURSIVE cascade(_, _)
cascade(rows, id) ==
    {r \in rows : r.id = id}
    \cup UNION {cascade(rows, r.id) : r \in replies(rows, id)}

\* Mutant: the relationship without its cascade.
delete_without_cascade(rows, id) == {r \in rows : r.id # id}

\* db.session.delete(comment); db.session.commit().
delete(rows, id) == rows \ cascade(rows, id)

\* Mutant: the route that lets every user delete.
may_delete_anyone(comment, actor) == TRUE

\* delete_comment: comment.author != current_user answers 403.
may_delete(comment, actor) == comment.author_id = actor

\* Mutant: the route without the test of the parent's poll.
invalid_parent_never(parent_comment, poll_id) == FALSE

\* add_reply: parent_comment.poll_id != poll_id answers 400.
invalid_parent(parent_comment, poll_id) == parent_comment.poll_id # poll_id

CommentFrame ==
    UNCHANGED <<now, tzOffset, graphVars, directMessages, pollVars, communities,
                communityMembers, reqs>>

\* A new comment row must fit the bound of the model: at most MaxComments
\* rows, with ids up to MaxComments.
CommentRoom == Cardinality(comments) < MaxComments /\ NextId(comments) <= MaxComments

\* routes.py add_comment: POST /poll/<poll_id>/comment with {content}.  The
\* body's parent_id, if any, is not read: the row is a root comment.
\* get_or_404 runs inside the try: its NotFound is answered 500.
add_comment(actor, poll_id, has_content) ==
    /\ CommentFrame
    /\ IF ~login_required(actor)
       THEN /\ resp' = Response("add_comment", actor, poll_id, NULL, "unauthorized", 0)
            /\ UNCHANGED comments
       ELSE IF ~has_content
       THEN /\ resp' = Response("add_comment", actor, poll_id, NULL, "content_required", 0)
            /\ UNCHANGED comments
       ELSE IF ~Exists(polls, poll_id)
       THEN /\ resp' = Response("add_comment", actor, poll_id, NULL, "failed", 0)
            /\ UNCHANGED comments
       ELSE LET id == NextId(comments)
            IN /\ CommentRoom
               /\ comments' = comments \cup {[id |-> id, author_id |-> actor,
                                              poll_id |-> poll_id, parent_id |-> NULL]}
               /\ resp' = Response("add_comment", actor, poll_id, NULL, "created", id)

\* routes.py add_reply: POST /poll/<poll_id>/reply with {content, parent_id}.
\* The poll of the URL is not loaded; only the parent's poll_id is compared.
add_reply(actor, poll_id, has_content, parent_id) ==
    /\ CommentFrame
    /\ IF ~login_required(actor)
       THEN /\ resp' = Response("add_reply", actor, poll_id, parent_id, "unauthorized", 0)
            /\ UNCHANGED comments
       ELSE IF ~has_content \/ parent_id = NULL
       THEN /\ resp' = Response("add_reply", actor, poll_id, parent_id,
                                "content_and_parent_required", 0)
            /\ UNCHANGED comments
       ELSE IF ~Exists(comments, parent_id)
       THEN /\ resp' = Response("add_reply", actor, poll_id, parent_id, "failed", 0)
            /\ UNCHANGED comments
       ELSE IF invalid_parent(Get(comments, parent_id), poll_id)
       THEN /\ resp' = Response("add_reply", actor, poll_id, parent_id, "invalid_parent", 0)
            /\ UNCHANGED comments
       ELSE LET id == NextId(comments)
            IN /\ CommentRoom
               /\ comments' = comments \cup {[id |-> id, author_id |-> actor,
                                              poll_id |-> poll_id, parent_id |-> parent_id]}
               /\ resp' = Response("add_reply", actor, poll_id, parent_id, "created", id)

\* routes.py delete_comment: POST /poll/comment/<comment_id>/delete.  The
\* response of the model carries the number of rows deleted that the actor did
\* not write (b) and the number of rows deleted (count).
delete_comment(actor, comment_id) ==
    /\ CommentFrame
    /\ IF ~login_required(actor)
       THEN /\ resp' = Response("delete_comment", actor, comment_id, 0, "unauthorized", 0)
            /\ UNCHANGED comments
       ELSE IF ~Exists(comments, comment_id)
       THEN /\ resp' = Response("delete_comment", actor, comment_id, 0, "failed", 0)
            /\ UNCHANGED comments
       ELSE IF ~may_delete(Get(comments, comment_id), actor)
       THEN /\ resp' = Response("delete_comment", actor, comment_id, 0, "forbidden", 0)
            /\ UNCHANGED comments
       ELSE /\ comments' = delete(comments, comment_id)
            /\ resp' = Response("delete_comment", actor, comment_id,
                                Cardinality({r \in comments \ comments' : r.author_id # actor}),
                                "deleted", Cardinality(comments \ comments'))

NextComment ==
    \/ \E actor \in Actors, poll_id \in IdInputs(polls), has_content \in BOOLEAN :
           add_comment(actor, poll_id, has_content)
    \/ \E actor \in Actors, poll_id \in IdInputs(polls), has_content \in BOOLEAN,
          parent_id \in IdInputs(comments) \cup {NULL} :
           add_reply(actor, poll_id, has_content, parent_id)
    \/ \E actor \in Actors, comment_id \in IdInputs(comments) :
           delete_comment(actor, comment_id)

\* Deleting runs on a store with one poll: a comment tree lies in one poll.
SpecComment == InitUpvoteConc /\ [][NextComment]_vars

\* Replies across polls need two polls; the requests are those of logged-in
\* users with a content (the others write nothing, as SpecComment shows).
NextReply ==
    \/ \E actor \in Users, poll_id \in IdInputs(polls) : add_comment(actor, poll_id, TRUE)
    \/ \E actor \in Users, poll_id \in IdInputs(polls), parent_id \in IdInputs(comments) :
           add_reply(actor, poll_id, TRUE, parent_id)
    \/ \E actor \in Users, comment_id \in IdInputs(comments) : delete_comment(actor, comment_id)

SpecReply == InitUpvote /\ [][NextReply]_vars

(***************************************************************************)
(* CommunityMembership: models.py Community, CommunityMembers; routes.py   *)
(* create_community, join_community.                                       *)
(***************************************************************************)
\* What the create form posts; "" is a field left empty.
Universities == {"MIT", "CMU"}
Programs == {"CS"}
CommunityForms == [university : Universities \cup {""}, program : Programs \cup {""}]

\* CommunityForm: university and program are DataRequired.
CommunityForm_validate(form) == form.university # "" /\ form.program # ""

\* create_community, the check: Community.query.filter_by(university,
\* program).first() finds a row.
community_existing(university, program) ==
    \E c \in communities : c.university = university /\ c.program = program

\* Mutant: the table without unique_university_program.
Community_unique_absent(rows, university, program) == TRUE

\* UniqueConstraint('university', 'program'): the INSERT is refused when a row
\* of the pair is in the table.
Community_unique(rows, university, program) ==
    ~\E c \in rows : c.university = university /\ c.program = program

\* Mutant: the except branch without db.session.rollback(): the flushed
\* community row stays when the membership INSERT fails.
create_community_write_partial(actor, university, program, membership_fails) ==
    LET id == NextId(communities)
        community == [id |-> id, university |-> university, program |-> program,
                      created_by_id |-> actor]
        membership == [id |-> NextId(communityMembers), user_id |-> actor,
                       community_id |-> id]
    IN IF ~Community_unique(communities, university, program)
       THEN [communities |-> communities, communityMembers |-> communityMembers,
             status |-> "failed", id |-> 0]
       ELSE IF membership_fails
       THEN [communities |-> communities \cup {community},
             communityMembers |-> communityMembers, status |-> "failed", id |-> 0]
       ELSE [communities |-> communities \cup {community},
             communityMembers |-> communityMembers \cup {membership},
             status |-> "created", id |-> id]

\* create_community, the writes: add(community), flush, add(membership),
\* commit, all inside the try.  The flush raises IntegrityError when the
\* constraint refuses the community; the database may also fail the INSERT of
\* the membership or the COMMIT (membership_fails).  The except branch rolls
\* the session back, so neither row is stored, and flashes the error.
create_community_write(actor, university, program, membership_fails) ==
    LET id == NextId(communities)
        community == [id |-> id, university |-> university, program |-> program,
                      created_by_id |-> actor]
        membership == [id |-> NextId(communityMembers), user_id |-> actor,
                       community_id |-> id]
    IN IF ~Community_unique(communities, university, program)
       THEN [communities |-> communities, communityMembers |-> communityMembers,
             status |-> "failed", id |-> 0]
       ELSE IF membership_fails
       THEN [communities |-> communities, communityMembers |-> communityMembers,
             status |-> "failed", id |-> 0]
       ELSE [communities |-> communities \cup {community},
             communityMembers |-> communityMembers \cup {membership},
             status |-> "created", id |-> id]

CommunityFrame ==
    UNCHANGED <<now, tzOffset, graphVars, directMessages, pollVars, comments>>

\* routes.py create_community: POST /communities/create, one request from
\* start to end.
create_community(actor, form, membership_fails) ==
    /\ CommunityFrame
    /\ UNCHANGED reqs
    /\ IF ~login_required(actor)
       THEN /\ resp' = Response("create_community", actor, form.university, form.program,
                                "unauthorized", 0)
            /\ UNCHANGED <<communities, communityMembers>>
       ELSE IF ~CommunityForm_validate(form)
       THEN /\ resp' = Response("create_community", actor, form.university, form.program,
                                "form_invalid", 0)
            /\ UNCHANGED <<communities, communityMembers>>
       ELSE IF community_existing(form.university, form.program)
       THEN /\ resp' = Response("create_community", actor, form.university, form.program,
                                "already_exists", 0)
            /\ UNCHANGED <<communities, communityMembers>>
       ELSE LET w == create_community_write(actor, form.university, form.program,
                                            membership_fails)
            IN /\ communities' = w.communities
               /\ communityMembers' = w.communityMembers
               /\ resp' = Response("create_community", actor, form.university, form.program,
                                   w.status, w.id)

\* routes.py join_community: POST /communities/<id>/join.
join_community(actor, id, form_valid) ==
    /\ CommunityFrame
    /\ UNCHANGED <<communities, reqs>>
    /\ IF ~login_required(actor)
       THEN /\ resp' = Response("join_community", actor, id, NULL, "unauthorized", 0)
            /\ UNCHANGED communityMembers
       ELSE IF ~form_valid
       THEN /\ resp' = Response("join_community", actor, id, NULL, "form_invalid", 0)
            /\ UNCHANGED communityMembers
       ELSE IF ~Exists(communities, id)
       THEN /\ resp' = Response("join_community", actor, id, NULL, "not_found", 0)
            /\ UNCHANGED communityMembers
       ELSE IF \E m \in communityMembers : m.user_id = actor /\ m.community_id = id
       THEN /\ resp' = Response("join_community", actor, id, NULL, "already_member", 0)
            /\ UNCHANGED communityMembers
       ELSE /\ communityMembers' = communityMembers \cup
                   {[id |-> NextId(communityMembers), user_id |-> actor, community_id |-> id]}
            /\ resp' = Response("join_community", actor, id, NULL, "joined", 0)

NextCommunity ==
    \/ \E actor \in Actors, form \in CommunityForms, membership_fails \in BOOLEAN :
           create_community(actor, form, membership_fails)
    \/ \E actor \in Actors, id \in IdInputs(communities), form_valid \in BOOLEAN :
           join_community(actor, id, form_valid)

SpecCommunity == InitGraph /\ [][NextCommunity]_vars

\* create_community as two steps of a worker: up to the answer of the check ...
community_select(actor, form) ==
    /\ CommunityFrame
    /\ IF ~login_required(actor)
       THEN /\ resp' = Response("create_community", actor, form.university, form.program,
                                "unauthorized", 0)
            /\ UNCHANGED <<communities, communityMembers, reqs>>
       ELSE IF ~CommunityForm_validate(form)
       THEN /\ resp' = Response("create_community", actor, form.university, form.program,
                                "form_invalid", 0)
            /\ UNCHANGED <<communities, communityMembers, reqs>>
       ELSE /\ BagCardinality(reqs) < MaxReqs
            /\ reqs' = reqs (+) SetToBag({[user |-> actor, university |-> form.university,
                                           program |-> form.program,
                                           existing |-> community_existing(form.university,
                                                                           form.program)]})
            /\ UNCHANGED <<communities, communityMembers, resp>>

\* ... and from that answer to the response.
community_commit(q, membership_fails) ==
    /\ CommunityFrame
    /\ BagIn(q, reqs)
    /\ reqs' = reqs (-) SetToBag({q})
    /\ IF q.existing
       THEN /\ resp' = Response("create_community", q.user, q.university, q.program,
                                "already_exists", 0)
            /\ UNCHANGED <<communities, communityMembers>>
       ELSE LET w == create_community_write(q.user, q.university, q.program, membership_fails)
            IN /\ communities' = w.communities
               /\ communityMembers' = w.communityMembers
               /\ resp' = Response("create_community", q.user, q.university, q.program,
                                   w.status, w.id)

\* The interleavings, with a database that fails no statement of its own.
NextCommunityConc ==
    \/ \E actor \in Actors, form \in CommunityForms : community_select(actor, form)
    \/ \E q \in BagToSet(reqs) : community_commit(q, FALSE)

SpecCommunityConc == InitGraph /\ [][NextCommunityConc]_vars

(***************************************************************************)
(* Properties of the identity graph.                                       *)
(***************************************************************************)
\* C3: no ordered pair of users has both a Follow row and a pending
\* FollowRequest row in the same direction.
NoFollowWithPendingRequest == follows \cap followRequests = {}

\* C4: a DirectMessage is stored only when sender and recipient follow each
\* other: the response "sent" is given only to a sender in a mutual follow.
MessageOnlyBetweenMutualFollowers ==
    (resp.op = "chat" /\ resp.status = "sent") => can_dm(resp.actor, resp.a)

\* C5: accept_follow either creates the edge requester -> owner and deletes
\* the request requester -> owner, or changes neither table; an accept that
\* does not answer "accepted" changes neither.
AcceptIsAtomic ==
    [][\A owner \in Users, requester \in Users, is_json \in BOOLEAN :
          accept_follow(owner, requester, is_json) =>
              \/ /\ resp'.status = "accepted"
                 /\ <<requester, owner>> \notin follows
                 /\ <<requester, owner>> \in followRequests
                 /\ follows' = follows \cup {<<requester, owner>>}
                 /\ followRequests' = followRequests \ {<<requester, owner>>}
              \/ /\ resp'.status # "accepted"
                 /\ UNCHANGED <<follows, followRequests>>]_vars

\* C5 witness: an accept has failed on an edge that was already there, and both
\* rows are still in place.
AcceptFailedWitness ==
    /\ resp.op = "accept_follow"
    /\ resp.status = "failed"
    /\ <<resp.a, resp.actor>> \in follows
    /\ <<resp.a, resp.actor>> \in followRequests

\* C6: after a successful accept the edge requester -> owner exists and the
\* request is gone, and the same accept repeated at once answers not found and
\* changes nothing.
AcceptConsumesRequest ==
    /\ []((resp.op = "accept_follow" /\ resp.status = "accepted") =>
              /\ <<resp.a, resp.actor>> \in follows
              /\ <<resp.a, resp.actor>> \notin followRequests)
    /\ [][\A owner \in Users, requester \in Users :
             (/\ resp = Response("accept_follow", owner, requester, NULL, "accepted", 0)
              /\ accept_follow(owner, requester, TRUE)) =>
                 /\ resp'.status = "not_found"
                 /\ UNCHANGED graphVars]_vars

\* C6 witness: the repeated accept has answered not found, the edge in place.
RepeatedAcceptWitness ==
    /\ resp.op = "accept_follow"
    /\ resp.status = "not_found"
    /\ <<resp.a, resp.actor>> \in follows
    /\ <<resp.a, resp.actor>> \notin followRequests

\* C10: a follow of a private target answers "already sent" and changes nothing
\* when the request actor -> target is pending, and otherwise creates exactly
\* that request; the table never holds two requests for one ordered pair.
SendFollowRequestOnce ==
    /\ [](\A x \in Users, y \in Users :
             Cardinality({r \in followRequests : r = <<x, y>>}) <= 1)
    /\ [][\A actor \in Users, target \in Users :
             (/\ actor # target
              /\ isPrivate[target]
              /\ follow(actor, target, TRUE)) =>
                 IF <<actor, target>> \in followRequests
                 THEN /\ resp'.status = "request_already_sent"
                      /\ UNCHANGED graphVars
                 ELSE /\ resp'.status = "request_sent"
                      /\ followRequests' = followRequests \cup {<<actor, target>>}
                      /\ UNCHANGED <<isPrivate, follows>>]_vars

\* C10 witness: a second request for a pending pair has been answered.
AlreadyPendingWitness ==
    /\ resp.op = "follow"
    /\ resp.status = "request_already_sent"
    /\ <<resp.actor, resp.a>> \in followRequests

\* C11: a follow whose target is the actor is answered "cannot follow
\* yourself" and writes nothing, and no reachable store holds a follows row
\* with follower = followed or a follow_requests row with requester =
\* requested.
NoSelfLoops ==
    /\ [](\A u \in Users : <<u, u>> \notin follows /\ <<u, u>> \notin followRequests)
    /\ [][\A actor \in Users :
             follow(actor, actor, TRUE) =>
                 /\ resp'.status = "cannot_follow_yourself"
                 /\ UNCHANGED graphVars]_vars

\* C11 witness: a self-follow has been refused.
SelfFollowRefusedWitness ==
    /\ resp.op = "follow"
    /\ resp.status = "cannot_follow_yourself"
    /\ resp.a = resp.actor
    /\ resp.actor \in Users

\* C12: a follow of a public target by an actor who already follows it answers
\* "already following" and changes nothing; by an actor who does not, it adds
\* exactly the edge actor -> target; the table never holds two edges for one
\* ordered pair.
FollowIsIdempotent ==
    /\ [](\A x \in Users, y \in Users :
             Cardinality({r \in follows : r = <<x, y>>}) <= 1)
    /\ [][\A actor \in Users, target \in Users :
             (/\ actor # target
              /\ ~isPrivate[target]
              /\ follow(actor, target, TRUE)) =>
                 IF <<actor, target>> \in follows
                 THEN /\ resp'.status = "already_following"
                      /\ UNCHANGED graphVars
                 ELSE /\ resp'.status = "following"
                      /\ follows' = follows \cup {<<actor, target>>}
                      /\ UNCHANGED <<isPrivate, followRequests>>]_vars

\* C12 witness: a repeated follow of a public target has been answered, the
\* edge in place.
AlreadyFollowingWitness ==
    /\ resp.op = "follow"
    /\ resp.status = "already_following"
    /\ ~isPrivate[resp.a]
    /\ <<resp.actor, resp.a>> \in follows

\* C13: a reject by the owner deletes the pending request requester -> owner
\* and writes nothing else (no edge is created); with no such request pending
\* it answers not found and leaves follows and follow_requests as they were.
RejectDeletesRequestOnly ==
    [][\A owner \in Users, requester \in Users :
          reject_follow(owner, requester, TRUE) =>
              IF <<requester, owner>> \in followRequests
              THEN /\ resp'.status = "rejected"
                   /\ followRequests' = followRequests \ {<<requester, owner>>}
                   /\ UNCHANGED <<isPrivate, follows>>
              ELSE /\ resp'.status = "not_found"
                   /\ UNCHANGED graphVars]_vars

\* C13 witness: a pending request has been rejected; the request is gone and
\* the requester does not follow the owner.
RejectedWitness ==
    /\ resp.op = "reject_follow"
    /\ resp.status = "rejected"
    /\ <<resp.a, resp.actor>> \notin followRequests
    /\ <<resp.a, resp.actor>> \notin follows

\* C14: toggle_privacy flips the is_private flag of the actor and nothing
\* else: every follows row and every follow_requests row, those pending on the
\* actor included, is as before.
TogglePrivacyFrame ==
    [][\A actor \in Users :
          toggle_privacy(actor) =>
              /\ isPrivate' = [isPrivate EXCEPT ![actor] = ~isPrivate[actor]]
              /\ follows' = follows
              /\ followRequests' = followRequests]_vars

\* C14 witness: an account has been toggled while a request was pending on it
\* and an edge pointed at it; both rows are still there.
ToggledWithRowsWitness ==
    /\ resp.op = "toggle_privacy"
    /\ resp.status = "ok"
    /\ \E r \in followRequests : r[2] = resp.actor
    /\ \E e \in follows : e[2] = resp.actor

\* C30: a step that creates the edge x -> y is either x's follow of y taken
\* while y is public, or y's accept of the request x -> y that was pending; so
\* no step of x creates an edge to a y that is private at that step.
EdgeOnlyByPublicFollowOrAccept ==
    [][\A x \in Users, y \in Users :
          (<<x, y>> \notin follows /\ <<x, y>> \in follows') =>
              \/ /\ ~isPrivate[y]
                 /\ follow(x, y, TRUE)
              \/ /\ <<x, y>> \in followRequests
                 /\ accept_follow(y, x, TRUE)]_vars

\* C30 witness: an edge into a private account has been created by its owner's
\* accept.
EdgeIntoPrivateByAcceptWitness ==
    /\ resp.op = "accept_follow"
    /\ resp.status = "accepted"
    /\ isPrivate[resp.actor]
    /\ <<resp.a, resp.actor>> \in follows

(***************************************************************************)
(* Properties of the vote ledger.                                          *)
(***************************************************************************)
\* C1: for every user and every poll the store holds at most one Vote row of
\* that user, counted across all the options of the poll.
OneVotePerUserPerPoll ==
    \A u \in Users, p \in polls :
        Cardinality({v \in votes : v.user_id = u /\ OptionPoll(v.option_id) = p.id}) <= 1

\* C2: no Vote row was inserted at a time when the poll that owns its option
\* had ended (end_date <= the insertion time).
NoVoteAfterPollEnded ==
    \A v \in votes :
        LET poll == Get(polls, OptionPoll(v.option_id))
        IN poll.end_date = NULL \/ v.timestamp < poll.end_date

\* C20: a vote that was recorded names an option of the poll it names: no
\* entry point that takes a poll id and an option id inserts a Vote row for an
\* option of another poll.
VoteOptionBelongsToPoll ==
    (resp.op \in {"vote", "vote_poll"} /\ resp.status = "recorded") =>
        OptionPoll(resp.b) = resp.a

\* C27: under every interleaving of the vote requests of one user, the two
\* that both ran the existing-vote check before either inserted included, the
\* store holds at most one Vote row of that user for one option.
OneVotePerUserPerOption ==
    \A u \in Users, o \in pollOptions :
        Cardinality({v \in votes : v.user_id = u /\ v.option_id = o.id}) <= 1

(***************************************************************************)
(* Properties of the upvotes.                                              *)
(***************************************************************************)
\* C7: under every interleaving of upvote requests, the same user's on the
\* same poll included, the store holds at most one PollVote row per user and
\* poll.
OneUpvotePerUserPerPoll ==
    \A u \in Users, p \in polls :
        Cardinality({r \in pollVotes : r.user_id = u /\ r.poll_id = p.id}) <= 1

\* C7 witness: two requests of one user passed the SELECT with no row found;
\* one has inserted, the other was refused by the constraint.
UpvoteRaceWitness ==
    /\ resp.op = "upvote_poll"
    /\ resp.status = "failed"
    /\ resp.actor \in Users
    /\ \E r \in pollVotes : r.user_id = resp.actor /\ r.poll_id = resp.a

\* C8: an upvote by a user with no row on the poll answers added with the
\* count N + 1 and adds only that user's row; the same request taken as the
\* next step answers removed with the count N and removes that row again, so
\* the table is the one before the first request.
DoubleToggle ==
    [][\A u \in Users, p \in polls :
          /\ (select_poll_vote(u, p.id) = NULL /\ upvote_poll(u, p.id)) =>
                 /\ resp'.status = "added"
                 /\ resp'.count = upvote_count(pollVotes, p.id) + 1
                 /\ pollVotes \subseteq pollVotes'
                 /\ \A r \in pollVotes' \ pollVotes : r.user_id = u /\ r.poll_id = p.id
          /\ (/\ resp = Response("upvote_poll", u, p.id, NULL, "added", resp.count)
              /\ upvote_poll(u, p.id)) =>
                 /\ resp'.status = "removed"
                 /\ resp'.count = resp.count - 1
                 /\ pollVotes' = {r \in pollVotes : ~(r.user_id = u /\ r.poll_id = p.id)}]_vars

\* C8 witness: the second toggle has answered removed on a poll that another
\* user's upvote is on (N >= 1).
DoubleToggleWitness ==
    /\ resp.op = "upvote_poll"
    /\ resp.status = "removed"
    /\ resp.count >= 1
    /\ ~\E r \in pollVotes : r.user_id = resp.actor /\ r.poll_id = resp.a

\* C9: an upvote request of an anonymous actor is answered unauthorized and
\* leaves the PollVote table as it was.
AnonymousUpvoteRejected ==
    [][\A poll_id \in IdInputs(polls) :
          upvote_poll(Anonymous, poll_id) =>
              /\ resp'.status = "unauthorized"
              /\ UNCHANGED pollVotes]_vars

\* C9 witness: the anonymous request has been answered, upvotes in the table.
AnonymousUpvoteWitness ==
    /\ resp = Response("upvote_poll", Anonymous, 1, NULL, "unauthorized", 0)
    /\ pollVotes # {}

(***************************************************************************)
(* Properties of the listings.                                             *)
(***************************************************************************)
\* C21: under every sort the index lists only polls whose end_date is NULL or
\* later than now, the archive lists exactly the polls whose end_date is now
\* or earlier, and at no instant is a poll in both listings.
ActiveAndArchivedDisjoint ==
    /\ [][\A sort \in Sorts :
             index(sort) =>
                 \A id \in Listed(resp'.a) :
                     Get(polls, id).end_date = NULL \/ Get(polls, id).end_date > now]_vars
    /\ [][archived_polls =>
             Listed(resp'.a) =
                 {p.id : p \in {q \in polls : q.end_date # NULL /\ q.end_date <= now}}]_vars
    /\ [](\A sort \in Sorts :
             \A active \in index_query(sort), archived \in archived_query :
                 Listed(active) \cap Listed(archived) = {})

\* C21 witness: the archive has listed a poll at the very minute it ended.
ArchivedAtEndWitness ==
    /\ resp.op = "archived_polls"
    /\ \E id \in Listed(resp.a) : Get(polls, id).end_date = resp.count

\* C29: the index with sort = top lists every active poll, those with no
\* upvote included, by upvote count descending and, among polls of equal
\* count, by created_at descending.
TopListsEveryActivePoll ==
    [][index("top") =>
          LET listing == resp'.a
              count(id) == upvote_count(pollVotes, id)
          IN /\ Listed(listing) = {p.id : p \in base_query}
             /\ \A i, j \in DOMAIN listing :
                    i < j =>
                        \/ count(listing[i]) > count(listing[j])
                        \/ /\ count(listing[i]) = count(listing[j])
                           /\ Get(polls, listing[i]).created_at >=
                                  Get(polls, listing[j]).created_at]_vars

(***************************************************************************)
(* Properties of poll creation.                                            *)
(***************************************************************************)
\* C15: every poll row, whichever route wrote it, has an end_date, and that
\* end_date lies between created_at + 5 minutes and created_at + 10 days.
EndDateWithinLimits ==
    \A p \in polls :
        /\ p.end_date # NULL
        /\ p.created_at + FiveMinutes <= p.end_date
        /\ p.end_date <= p.created_at + TenDays

\* C16: an API create_poll of an otherwise well-formed body with an end_date
\* is accepted, and stores that end_date, exactly when now + 5 minutes <=
\* end_date <= now + 10 days; every other end_date is answered too soon or too
\* far, as the case is, and no poll is stored.
ApiEndDateAcceptedInRange ==
    [][\A actor \in Users, data \in ApiData :
          (/\ data.end_date.fmt = "iso"
           /\ api_create_poll(actor, data)) =>
              LET e == data.end_date.value
              IN IF now + FiveMinutes <= e /\ e <= now + TenDays
                 THEN /\ resp'.status = "created"
                      /\ \E p \in polls' \ polls : p.end_date = e
                 ELSE /\ resp'.status =
                             IF e < now + FiveMinutes
                             THEN "end_date_too_soon" ELSE "end_date_too_far"
                      /\ UNCHANGED <<polls, pollOptions>>]_vars

\* C17: a poll created with no end_date supplied is stored with end_date =
\* created_at + 3 days.
DefaultEndDateFromCreatedAt ==
    (/\ resp.op \in {"create_poll", "api_create_poll"}
     /\ resp.status = "created"
     /\ resp.a = NULL) =>
        LET p == Get(polls, resp.count)
        IN p.end_date # NULL /\ p.end_date = p.created_at + ThreeDays

\* C18: every poll row has exactly one option with the viewing-only text, and
\* that option was inserted after every other option of the poll.
OneViewingOptionLast ==
    \A p \in polls :
        LET own == {o \in pollOptions : o.poll_id = p.id}
            viewing == {o \in own : o.text = DEFAULT_OPTION}
        IN /\ Cardinality(viewing) = 1
           /\ \A v \in viewing, o \in own \ viewing : o.id < v.id

\* C19: an API create_poll by an anonymous caller with a well-formed body is
\* answered created and stores a poll whose user_id is NULL.
AnonymousApiPollStored ==
    [][\A data \in ApiData :
          (/\ data.has_title_and_type
           /\ data.poll_type = "general"
           /\ Len(data.options) >= 2
           /\ data.end_date.fmt = "absent"
           /\ api_create_poll(Anonymous, data)) =>
              /\ resp'.status = "created"
              /\ \E p \in polls' \ polls : p.user_id = NULL]_vars

DeleteByAuthorOnly ==
    [][resp'.op = "delete_comment" =>
          \A actor \in Actors, c \in comments :
              (resp'.a = c.id /\ delete_comment(actor, c.id)) =>
                  IF actor = c.author_id
                  THEN /\ resp'.status = "deleted"
                       /\ c \notin comments'
                  ELSE /\ resp'.status = IF actor \in Users THEN "forbidden" ELSE "unauthorized"
                       /\ UNCHANGED comments]_vars

\* C22 witness: a user who is not the author has been refused on a comment
\* that has a reply; both are in the table.
DeleteRefusedWitness ==
    /\ resp.op = "delete_comment"
    /\ resp.status = "forbidden"
    /\ \E c \in comments :
           /\ c.id = resp.a
           /\ c.author_id # resp.actor
           /\ \E r \in comments : r.parent_id = c.id

\* C23: a delete of a comment removes, in the one step, the comment and
\* exactly the rows below it, whoever wrote them: every removed row is the
\* comment or a reply to a removed row, and in every reachable state the
\* parent of every reply is in the table.
DeleteRemovesSubtree ==
    /\ [](\A c \in comments : c.parent_id # NULL => Exists(comments, c.parent_id))
    /\ [][resp'.status = "deleted" =>
          \A actor \in Users, c \in comments :
             (resp'.a = c.id /\ delete_comment(actor, c.id)) =>
                 /\ comments' \subseteq comments
                 /\ c \notin comments'
                 /\ \A r \in comments' : r.parent_id # NULL => Exists(comments', r.parent_id)
                 /\ \A r \in comments \ comments' :
                        r = c \/ (r.parent_id # NULL /\ ~Exists(comments', r.parent_id))]_vars

\* C23 witness: one delete has removed a comment, a reply to it and a reply
\* to that reply or a second reply, one of them written by another user.
SubtreeDeletedWitness ==
    /\ resp.op = "delete_comment"
    /\ resp.status = "deleted"
    /\ resp.count >= 3
    /\ resp.b >= 1
    /\ ~Exists(comments, resp.a)

\* C24: a reply whose parent comment belongs to another poll than the one
\* named is answered invalid parent and writes nothing, and in every reachable
\* state a reply has the poll_id of its parent.
ReplyInParentsPoll ==
    /\ [](\A c \in comments :
             c.parent_id # NULL =>
                 /\ Exists(comments, c.parent_id)
                 /\ Get(comments, c.parent_id).poll_id = c.poll_id)
    /\ [][resp'.op = "add_reply" =>
          \A actor \in Users, p \in polls, parent \in comments :
             (/\ parent.poll_id # p.id
              /\ resp'.a = p.id /\ resp'.b = parent.id
              /\ add_reply(actor, p.id, TRUE, parent.id)) =>
                 /\ resp'.status = "invalid_parent"
                 /\ UNCHANGED comments]_vars

\* C24 witness: a reply under a comment of another poll has been refused.
InvalidParentWitness ==
    /\ resp.op = "add_reply"
    /\ resp.status = "invalid_parent"
    /\ Exists(polls, resp.a)
    /\ Exists(comments, resp.b)
    /\ Get(comments, resp.b).poll_id # resp.a

CreatorIsMember ==
    /\ [](\A c \in communities :
             \E m \in communityMembers :
                 m.user_id = c.created_by_id /\ m.community_id = c.id)
    /\ [][resp'.op = "create_community" =>
          \A actor \in Users, form \in CommunityForms, membership_fails \in BOOLEAN :
             create_community(actor, form, membership_fails) =>
                 \/ /\ resp'.status = "created"
                    /\ \E c \in communities' \ communities :
                           /\ communities' = communities \cup {c}
                           /\ c.created_by_id = actor
                           /\ \E m \in communityMembers' \ communityMembers :
                                  /\ communityMembers' = communityMembers \cup {m}
                                  /\ m.user_id = actor
                                  /\ m.community_id = c.id
                 \/ /\ resp'.status # "created"
                    /\ UNCHANGED <<communities, communityMembers>>]_vars

\* C26 witness: a create whose membership INSERT failed has been answered, and
\* the store holds no community of that pair.
MembershipFailedWitness ==
    /\ resp.op = "create_community"
    /\ resp.status = "failed"
    /\ ~community_existing(resp.a, resp.b)

====
